---- MODULE Spec2Model ----
(***************************************************************************)
(* BatchedSpeechManager (speech batching and playback scheduler) and       *)
(* NarrationOrchestrator (narration transition engine) as state machines.  *)
(* A text is a sequence of one-character strings, so that toLowerCase,     *)
(* trim, slice and split are computed character by character.              *)
(***************************************************************************)
EXTENDS Integers, Sequences, FiniteSets, TLC

\* ------------------------------------------------------------------ bounds
MaxQueue == 2
MaxTimers == 2
MaxOps == 2
MaxWindows == 1
MaxCalls == 3

\* ------------------------------------------------- configuration constants
minSpeechDuration == 500
dedupeWindowMs == 6000
HighNewObjectMinDuration == 300
LowNewObjectMinDuration == 500
JustEndedGuardMs == 100

NULL == 0
NoOverride == 0
\* null where a string is expected: equal to no string
NoText == <<"null">>

\* ------------------------------------------------------------ text helpers
Min(a, b) == IF a <= b THEN a ELSE b
Max(a, b) == IF a >= b THEN a ELSE b

IsSpace(c) == c = " "

\* The upper-case letters that occur in the texts of the model.
LowerOf(c) ==
  CASE c = "A" -> "a"
    [] c = "B" -> "b"
    [] c = "C" -> "c"
    [] c = "D" -> "d"
    [] c = "N" -> "n"
    [] c = "S" -> "s"
    [] c = "T" -> "t"
    [] OTHER -> c

toLowerCase(t) == [i \in 1..Len(t) |-> LowerOf(t[i])]

RECURSIVE trimStart(_)
trimStart(t) ==
  IF t # <<>> /\ IsSpace(Head(t)) THEN trimStart(Tail(t)) ELSE t

RECURSIVE trimEnd(_)
trimEnd(t) ==
  IF t # <<>> /\ IsSpace(t[Len(t)]) THEN trimEnd(SubSeq(t, 1, Len(t) - 1)) ELSE t

trim(t) == trimEnd(trimStart(t))

\* String.prototype.slice(0, n)
slice(t, n) == SubSeq(t, 1, Min(n, Len(t)))

\* String.prototype.split(/\s+/): the pieces between maximal runs of
\* whitespace; a leading or trailing run yields an empty first or last piece.
RECURSIVE splitFrom(_, _, _, _)
splitFrom(t, i, cur, acc) ==
  IF i > Len(t) THEN Append(acc, cur)
  ELSE IF IsSpace(t[i])
       THEN IF i > 1 /\ IsSpace(t[i - 1])
            THEN splitFrom(t, i + 1, cur, acc)
            ELSE splitFrom(t, i + 1, <<>>, Append(acc, cur))
       ELSE splitFrom(t, i + 1, Append(cur, t[i]), acc)

split(t) == splitFrom(t, 1, <<>>, <<>>)

includes(seq, w) == \E i \in 1..Len(seq) : seq[i] = w

\* narration.toLowerCase().trim()
NormKey(t) == trim(toLowerCase(t))

\* ------------------------------------------------------------------ inputs
CarAhead == <<"C","a","r"," ","a","h","e","a","d">>
BikeAhead == <<"B","i","k","e"," ","a","h","e","a","d">>
DoorLeft == <<"D","o","o","r"," ","l","e","f","t">>

Narrations == {CarAhead, BikeAhead, DoorLeft}
Priorities == {"critical", "high", "medium", "low"}
Overrides == {NoOverride, HighNewObjectMinDuration}

\* ------------------------------------------------------------------- clock
\* Date.now() starts far beyond every window, so that Date.now() - 0 exceeds
\* every threshold, as it does for an epoch clock.
Epoch == 10 * dedupeWindowMs
\* The instants at which the clock is read: the interruption thresholds after
\* the start, then whole dedupe windows.
FineOffsets == {0, HighNewObjectMinDuration, minSpeechDuration}
ClockValues ==
  {Epoch + f : f \in FineOffsets} \cup {Epoch + w * dedupeWindowMs : w \in 1..MaxWindows}

VARIABLES
  \* BatchedSpeechManager
  pendingObservations, isSpeaking, isProcessingRef, currentAudioRef,
  currentAudioUrlRef, speechStartTime, currentNarrationText, lastSpoken,
  batchTimer,
  \* the constructor's cleanup interval, whose handle is not kept
  cleanupTimer,
  \* its settle-delay timers, its processSpeech invocations, Date.now()
  timers, ops, now,
  \* history: whether stop() was the last call, the number of calls
  stopped, calls,
  \* NarrationOrchestrator
  context, transitionTimer, pendingDescription, onRefinedReady,
  \* its scheduled setTimeout handles
  orchTimers,
  \* history: the processDescription calls and the onReady invocations
  descLog, delivered,
  \* the arguments of a pure method applied on its own and its result:
  \* <<>> before the application, <<value>> after it
  fnArgs, fnResult

schedVars == <<pendingObservations, isSpeaking, isProcessingRef, currentAudioRef,
               currentAudioUrlRef, speechStartTime, currentNarrationText, lastSpoken,
               batchTimer, cleanupTimer, timers, ops, now, stopped, calls>>

orchVars == <<context, transitionTimer, pendingDescription, onRefinedReady,
              orchTimers, descLog, delivered>>

fnVars == <<fnArgs, fnResult>>

vars == <<schedVars, orchVars, fnVars>>

\* The scheduler's fields, the outstanding settle-delay timers and the
\* processSpeech invocations in flight, as one record that the methods below
\* transform.  inBounds records that no bound of the model was exceeded.
Cur ==
  [pendingObservations |-> pendingObservations, isSpeaking |-> isSpeaking,
   isProcessingRef |-> isProcessingRef, currentAudioRef |-> currentAudioRef,
   currentAudioUrlRef |-> currentAudioUrlRef, speechStartTime |-> speechStartTime,
   currentNarrationText |-> currentNarrationText, lastSpoken |-> lastSpoken,
   timers |-> timers, ops |-> ops, inBounds |-> TRUE]

\* One processSpeech invocation and the Audio element it creates.
\*   free      no invocation in this slot
\*   tts       awaiting the TTS request              (lines 480-508)
\*   fetch     awaiting the audio file and its blob  (lines 518-524)
\*   starting  audio.play() called, not yet playing  (line 595)
\*   playing   the play event has fired              (line 589)
\*   ended     playback has reached the end (audio.ended), the ended
\*             event has not been dispatched yet     (line 555)
\*   aborted   paused by stopCurrentSpeech while play() was pending
\*   dead      play() was rejected; the element is still referenced
\* cancelled records that stop, interrupt or speakNow stopped the speech
\* while the invocation was awaiting its TTS request or its audio.
FreeOp == [stage |-> "free", text |-> <<>>, cancelled |-> FALSE]

InFlight(o) == o.stage \in {"tts", "fetch"}

\* !audio.paused: play() has been called and pause() has not
NotPaused(o) == o.stage \in {"starting", "playing", "ended"}

\* audio.ended
Ended(o) == o.stage = "ended"

Observation(narration, priority) == [narration |-> narration, priority |-> priority]

\* --------------------------------------------------------- lexical helpers
\* a.split(/\s+/).filter(w => w.length > 3).map(w => w.toLowerCase())
KeyWords(t) ==
  LET long == SelectSeq(split(t), LAMBDA w : Len(w) > 3)
  IN  [i \in 1..Len(long) |-> toLowerCase(long[i])]

CommonCount(wordsA, wordsB) == Len(SelectSeq(wordsA, LAMBDA w : includes(wordsB, w)))

isSimilarNarration(a, b) ==
  IF slice(a, 25) = slice(b, 25) THEN TRUE
  ELSE LET wordsA == KeyWords(a)
           wordsB == KeyWords(b)
       IN  IF Len(wordsA) = 0 \/ Len(wordsB) = 0 THEN FALSE
           ELSE 2 * CommonCount(wordsA, wordsB) > Min(Len(wordsA), Len(wordsB))

\* wasRecentlySpoken without the lexical-similarity scan: exact keys only
wasRecentlySpoken_exactOnly(s, narration) ==
  LET key == NormKey(narration)
  IN  /\ key \in DOMAIN s.lastSpoken
      /\ s.lastSpoken[key] # 0
      /\ now - s.lastSpoken[key] < dedupeWindowMs

wasRecentlySpoken(s, narration) ==
  LET key == NormKey(narration)
  IN  \/ /\ key \in DOMAIN s.lastSpoken
         /\ s.lastSpoken[key] # 0
         /\ now - s.lastSpoken[key] < dedupeWindowMs
      \/ \E spokenText \in DOMAIN s.lastSpoken :
           /\ now - s.lastSpoken[spokenText] < dedupeWindowMs
           /\ isSimilarNarration(key, spokenText)

isNewObject(s, narration) ==
  IF s.currentNarrationText = NoText \/ s.currentNarrationText = <<>> THEN TRUE
  ELSE LET current == toLowerCase(s.currentNarrationText)
           newNarration == toLowerCase(narration)
       IN  IF slice(current, 30) = slice(newNarration, 30) THEN FALSE
           ELSE LET currentWords == SelectSeq(split(current), LAMBDA w : Len(w) > 3)
                    newWords == SelectSeq(split(newNarration), LAMBDA w : Len(w) > 3)
                    most == Max(Len(currentWords), Len(newWords))
                IN  \* 0 / 0 is NaN, and NaN < 0.3 is false
                    most > 0 /\ 10 * CommonCount(currentWords, newWords) < 3 * most

\* currentAudioRef !== null && !currentAudioRef.paused && !currentAudioRef.ended
audioPlaying(s) ==
  /\ s.currentAudioRef # NULL
  /\ NotPaused(s.ops[s.currentAudioRef])
  /\ ~Ended(s.ops[s.currentAudioRef])

\* ------------------------------------------------------------ the methods
\* stopCurrentSpeech that drops the element without pausing it
stopCurrentSpeech_noPause(s) ==
  [s EXCEPT !.currentAudioRef = NULL,
            !.currentAudioUrlRef = NULL,
            !.isProcessingRef = FALSE,
            !.isSpeaking = FALSE,
            !.speechStartTime = 0,
            !.currentNarrationText = NoText]

stopCurrentSpeech(s) ==
  LET a == s.currentAudioRef
      paused ==
        IF a = NULL THEN s.ops
        ELSE [s.ops EXCEPT ![a] =
                IF @.stage = "starting" THEN [@ EXCEPT !.stage = "aborted"] ELSE FreeOp]
  IN  [s EXCEPT !.ops = paused,
                !.currentAudioRef = NULL,
                !.currentAudioUrlRef = NULL,
                !.isProcessingRef = FALSE,
                !.isSpeaking = FALSE,
                !.speechStartTime = 0,
                !.currentNarrationText = NoText]

\* History only: the invocations awaiting the network when a caller stops
\* the speech are the ones that caller cancels.
markCancelled(s) ==
  [s EXCEPT !.ops = [i \in DOMAIN s.ops |->
     IF InFlight(s.ops[i]) THEN [s.ops[i] EXCEPT !.cancelled = TRUE] ELSE s.ops[i]]]

\* setTimeout(() => ..., 25)
setTimeout(s, timer) == [s EXCEPT !.timers = Append(@, timer)]

\* direct is history only: the timer was scheduled by a high-priority
\* observation taking the speak-immediately path (line 195).
SpeakTimer(text) == [kind |-> "speak", text |-> text, direct |-> FALSE]
FlushTimer == [kind |-> "flush", text |-> <<>>, direct |-> FALSE]
DirectTimer(text) == [SpeakTimer(text) EXCEPT !.direct = TRUE]

\* History only: marks the timer that speakNow has just scheduled.
markDirect(s, before) ==
  IF Len(s.timers) > Len(before.timers)
  THEN [s EXCEPT !.timers[Len(s.timers)].direct = TRUE]
  ELSE s

RECURSIVE addObservation(_, _)
RECURSIVE interrupt(_, _, _)

\* unshift written as push
queueFront_push(s, obs) == [s EXCEPT !.pendingObservations = Append(@, obs)]

queueFront(s, obs) == [s EXCEPT !.pendingObservations = <<obs>> \o @]
\* push written as unshift
queueBack_unshift(s, obs) == [s EXCEPT !.pendingObservations = <<obs>> \o @]

queueBack(s, obs) == [s EXCEPT !.pendingObservations = Append(@, obs)]

speakNow(s, text) ==
  IF Len(trim(text)) = 0 THEN s
  ELSE setTimeout(stopCurrentSpeech(markCancelled(s)), SpeakTimer(text))

interrupt(s, text, minDurationOverride) ==
  LET minDuration == IF minDurationOverride = NoOverride THEN minSpeechDuration
                     ELSE minDurationOverride
      speechDuration == now - s.speechStartTime
  IN  IF s.isSpeaking /\ speechDuration < minDuration
      THEN addObservation(s, Observation(text, "critical"))
      ELSE setTimeout(stopCurrentSpeech(markCancelled(s)), SpeakTimer(text))

addObservation(s, observation) ==
  LET isCurrentlySpeaking == s.isSpeaking \/ s.isProcessingRef \/ audioPlaying(s)
      newObject == isNewObject(s, observation.narration)
      speechDuration == now - s.speechStartTime
      isDuplicate == \E i \in 1..Len(s.pendingObservations) :
        isSimilarNarration(NormKey(s.pendingObservations[i].narration),
                           NormKey(observation.narration))
  IN  IF observation.priority # "critical" /\ wasRecentlySpoken(s, observation.narration)
      THEN s
      ELSE IF observation.priority = "critical"
      THEN IF isCurrentlySpeaking /\ speechDuration >= minSpeechDuration
           THEN interrupt(s, observation.narration, NoOverride)
           ELSE queueFront(s, observation)
      ELSE IF observation.priority = "high"
      THEN IF isCurrentlySpeaking /\ newObject
           THEN IF speechDuration >= HighNewObjectMinDuration
                THEN interrupt(s, observation.narration, HighNewObjectMinDuration)
                ELSE queueFront(s, observation)
           ELSE IF ~isCurrentlySpeaking
                THEN markDirect(speakNow(s, observation.narration), s)
                ELSE queueFront(s, observation)
      ELSE IF isCurrentlySpeaking /\ newObject
           THEN IF speechDuration >= LowNewObjectMinDuration
                THEN interrupt(s, observation.narration, LowNewObjectMinDuration)
                ELSE queueBack(s, observation)
           ELSE IF isDuplicate THEN s ELSE queueBack(s, observation)

deduplicateObservations(observations) ==
  LET keyOf(o) == slice(toLowerCase(o.narration), 30)
      RECURSIVE walk(_, _)
      walk(i, unique) ==
        IF i > Len(observations) THEN unique
        ELSE IF \E j \in 1..Len(unique) : keyOf(unique[j]) = keyOf(observations[i])
             THEN walk(i + 1, unique)
             ELSE walk(i + 1, Append(unique, observations[i]))
  IN  walk(1, <<>>)

\* the sort left out
sortByPriority_unsorted(observations) == observations

\* Array.prototype.sort is stable: equal priorities keep their order
sortByPriority(observations) ==
  LET of(p) == SelectSeq(observations, LAMBDA o : o.priority = p)
  IN  of("critical") \o of("high") \o of("medium") \o of("low")

AlsoSeparator == <<".", " ", "A", "l", "s", "o", ",", " ">>
SentenceSeparator == <<".", " ">>

summarizeBatch(s, observations) ==
  LET notRecentlySpoken ==
        SelectSeq(observations, LAMBDA o : ~wasRecentlySpoken(s, o.narration))
      unique == deduplicateObservations(notRecentlySpoken)
      sorted == sortByPriority(unique)
      top == SubSeq(sorted, 1, Min(3, Len(sorted)))
  IN  IF Len(notRecentlySpoken) = 0 THEN <<>>
      ELSE IF Len(notRecentlySpoken) = 1 THEN notRecentlySpoken[1].narration
      ELSE IF Len(top) = 1 THEN top[1].narration
      ELSE IF Len(top) = 2
           THEN top[1].narration \o AlsoSeparator \o toLowerCase(top[2].narration)
           ELSE top[1].narration \o SentenceSeparator \o top[2].narration
                  \o SentenceSeparator \o top[3].narration

\* The part of a flush after the skip checks (lines 292-311 and 664-683).
drainAndSpeak(s) ==
  LET batch == s.pendingObservations
      drained == [s EXCEPT !.pendingObservations = <<>>]
      summary == summarizeBatch(drained, batch)
  IN  IF Len(trim(summary)) = 0 THEN drained
      ELSE IF wasRecentlySpoken(drained, summary) THEN drained
      ELSE speakNow(drained, summary)

forceProcessBatch(s) ==
  IF Len(s.pendingObservations) = 0 THEN s
  ELSE IF s.isSpeaking \/ s.isProcessingRef THEN s
  ELSE IF audioPlaying(s) THEN s
  ELSE drainAndSpeak(s)

\* a tick that never flushes
batchTick_idle(s) == s

\* The callback of the batch interval timer.
batchTick(s) ==
  IF Len(s.pendingObservations) = 0 THEN s
  ELSE IF s.isSpeaking \/ s.isProcessingRef THEN s
  ELSE IF audioPlaying(s) THEN s
  ELSE IF s.speechStartTime > 0 /\ now - s.speechStartTime < JustEndedGuardMs THEN s
  ELSE drainAndSpeak(s)

stop(s) == [stopCurrentSpeech(markCancelled(s)) EXCEPT !.pendingObservations = <<>>]

\* lastSpoken entries older than two dedupe windows are deleted
cleanupOldEntries(s) ==
  LET kept == {k \in DOMAIN s.lastSpoken : ~(now - s.lastSpoken[k] > dedupeWindowMs * 2)}
  IN  [s EXCEPT !.lastSpoken = [k \in kept |-> s.lastSpoken[k]]]

HasFreeSlot(s) == \E i \in DOMAIN s.ops : s.ops[i].stage = "free"
FreeSlot(s) == CHOOSE i \in DOMAIN s.ops :
  s.ops[i].stage = "free" /\ \A j \in DOMAIN s.ops : s.ops[j].stage = "free" => i <= j

\* processSpeech up to its first await (lines 446-480)
processSpeech(s, text) ==
  IF s.isProcessingRef \/ s.isSpeaking THEN queueBack(s, Observation(text, "medium"))
  ELSE IF s.currentAudioRef # NULL /\ NotPaused(s.ops[s.currentAudioRef])
  THEN queueBack(s, Observation(text, "medium"))
  ELSE IF ~HasFreeSlot(s) THEN [s EXCEPT !.inBounds = FALSE]
  ELSE [s EXCEPT !.isProcessingRef = TRUE,
                 !.isSpeaking = TRUE,
                 !.ops[FreeSlot(s)] = [stage |-> "tts", text |-> text, cancelled |-> FALSE]]

\* catch (err) of processSpeech (lines 611-616)
\* a catch block that forgets the resets
catchError_keepFlags(s) == s

\* a catch block that resets one flag only
catchError_oneFlag(s) == [s EXCEPT !.isSpeaking = FALSE]

catchError(s) == [s EXCEPT !.isSpeaking = FALSE, !.isProcessingRef = FALSE]

\* The TTS request of invocation i settles (lines 480-514).
ttsSettled(s, i, ok) ==
  IF ok THEN [s EXCEPT !.ops[i].stage = "fetch"]
  ELSE catchError([s EXCEPT !.ops[i] = FreeOp])

\* .catch of audio.play() (lines 601-608) followed by catch (err)
playRejected(s) ==
  catchError([s EXCEPT !.isSpeaking = FALSE,
                       !.isProcessingRef = FALSE,
                       !.speechStartTime = 0,
                       !.currentNarrationText = NoText])

\* The audio fetch of invocation i settles (lines 518-610); allowed tells
\* whether the browser lets play() start playback.
audioFetched(s, i, ok, allowed) ==
  IF ~ok THEN catchError([s EXCEPT !.ops[i] = FreeOp])
  ELSE IF ~s.isProcessingRef THEN [s EXCEPT !.ops[i] = FreeOp]
  ELSE LET text == s.ops[i].text
           s1 == stopCurrentSpeech(s)
           s2 == [s1 EXCEPT
                    !.currentAudioRef = i,
                    !.currentAudioUrlRef = i,
                    !.currentNarrationText = text,
                    !.lastSpoken = [k \in DOMAIN s1.lastSpoken \cup {NormKey(text)} |->
                                      IF k = NormKey(text) THEN now ELSE s1.lastSpoken[k]]]
       IN  IF allowed THEN [s2 EXCEPT !.ops[i].stage = "starting"]
           ELSE playRejected([s2 EXCEPT !.ops[i].stage = "dead"])

\* audio.onplay (lines 589-592)
onplay(s, i) == [s EXCEPT !.ops[i].stage = "playing", !.speechStartTime = now]

\* handlers that drop the element but keep its object URL
releaseAudio_keepUrl(s) ==
  [s EXCEPT !.currentAudioRef = NULL,
            !.isSpeaking = FALSE,
            !.isProcessingRef = FALSE,
            !.speechStartTime = 0,
            !.currentNarrationText = NoText]

\* The resets shared by audio.onended and audio.onerror
releaseAudio(s) ==
  [s EXCEPT !.currentAudioUrlRef = NULL,
            !.currentAudioRef = NULL,
            !.isSpeaking = FALSE,
            !.isProcessingRef = FALSE,
            !.speechStartTime = 0,
            !.currentNarrationText = NoText]

\* audio.onended (lines 555-575)
onended(s, i) == setTimeout(releaseAudio([s EXCEPT !.ops[i] = FreeOp]), FlushTimer)

\* audio.onerror (lines 576-588) followed by catch (err)
onerror(s, i) == catchError(releaseAudio([s EXCEPT !.ops[i] = FreeOp]))

\* The callback of a settle-delay timer (lines 392-394, 414-416, 568-572)
timerFired(s, timer) ==
  IF timer.kind = "speak" THEN processSpeech(s, timer.text)
  ELSE IF Len(s.pendingObservations) > 0 /\ ~s.isSpeaking THEN forceProcessBatch(s)
  ELSE s

\* ---------------------------------------------------------------- actions
\* The scheduler and the orchestrator after construction
Fresh ==
  /\ pendingObservations = <<>>
  /\ isSpeaking = FALSE
  /\ isProcessingRef = FALSE
  /\ currentAudioRef = NULL
  /\ currentAudioUrlRef = NULL
  /\ speechStartTime = 0
  /\ currentNarrationText = NoText
  /\ lastSpoken = <<>>
  /\ batchTimer = TRUE
  /\ cleanupTimer = TRUE
  /\ timers = <<>>
  /\ ops = [i \in 1..MaxOps |-> FreeOp]
  /\ now = Epoch
  /\ stopped = "no"
  /\ calls = 0
  /\ context = <<>>
  /\ transitionTimer = NULL
  /\ pendingDescription = NoText
  /\ onRefinedReady = NULL
  /\ orchTimers = {}
  /\ descLog = <<>>
  /\ delivered = <<>>

Init ==
  /\ Fresh
  /\ fnArgs = <<>>
  /\ fnResult = <<>>

\* A call of the public interface; the model admits MaxCalls of them.
Call == calls < MaxCalls /\ calls' = calls + 1

Commit(s) ==
  /\ s.inBounds
  /\ Len(s.pendingObservations) <= MaxQueue
  /\ Len(s.timers) <= MaxTimers
  /\ pendingObservations' = s.pendingObservations
  /\ isSpeaking' = s.isSpeaking
  /\ isProcessingRef' = s.isProcessingRef
  /\ currentAudioRef' = s.currentAudioRef
  /\ currentAudioUrlRef' = s.currentAudioUrlRef
  /\ speechStartTime' = s.speechStartTime
  /\ currentNarrationText' = s.currentNarrationText
  /\ lastSpoken' = s.lastSpoken
  /\ timers' = s.timers
  /\ ops' = s.ops
  /\ UNCHANGED orchVars
  /\ UNCHANGED fnVars

AddObservation ==
  \E narration \in Narrations, priority \in Priorities :
    /\ Call
    /\ Commit(addObservation(Cur, Observation(narration, priority)))
    /\ stopped' = "no"
    /\ UNCHANGED <<batchTimer, cleanupTimer, now>>

Interrupt ==
  \E text \in Narrations, minDurationOverride \in Overrides :
    /\ Call
    /\ Commit(interrupt(Cur, text, minDurationOverride))
    /\ stopped' = "no"
    /\ UNCHANGED <<batchTimer, cleanupTimer, now>>

SpeakNow ==
  \E text \in Narrations :
    /\ Call
    /\ Commit(speakNow(Cur, text))
    /\ stopped' = "no"
    /\ UNCHANGED <<batchTimer, cleanupTimer, now>>

Stop ==
  /\ Call
  /\ Commit(stop(Cur))
  /\ stopped' = (IF \E i \in DOMAIN ops : InFlight(ops[i]) THEN "inflight" ELSE "idle")
  /\ UNCHANGED <<batchTimer, cleanupTimer, now>>

\* destroy() clears the batch interval and calls stop(); it touches no
\* other timer
Destroy ==
  /\ Call
  /\ Commit(stop(Cur))
  /\ batchTimer' = FALSE
  /\ stopped' = (IF \E i \in DOMAIN ops : InFlight(ops[i]) THEN "inflight" ELSE "idle")
  /\ UNCHANGED <<cleanupTimer, now>>

\* The constructor's setInterval callback
CleanupTick ==
  /\ cleanupTimer
  /\ Commit(cleanupOldEntries(Cur))
  /\ UNCHANGED <<batchTimer, cleanupTimer, now, stopped, calls>>

ForceProcessBatch ==
  /\ Call
  /\ Commit(forceProcessBatch(Cur))
  /\ UNCHANGED <<batchTimer, cleanupTimer, now, stopped>>

BatchTick ==
  /\ batchTimer
  /\ Commit(batchTick(Cur))
  /\ UNCHANGED <<batchTimer, cleanupTimer, now, stopped, calls>>

\* Settle-delay timers have the same delay, so they fire in creation order.
TimerFire ==
  /\ timers # <<>>
  /\ Commit(timerFired([Cur EXCEPT !.timers = Tail(timers)], Head(timers)))
  /\ UNCHANGED <<batchTimer, cleanupTimer, now, stopped, calls>>

TtsSettle ==
  \E i \in DOMAIN ops, ok \in BOOLEAN :
    /\ ops[i].stage = "tts"
    /\ Commit(ttsSettled(Cur, i, ok))
    /\ UNCHANGED <<batchTimer, cleanupTimer, now, stopped, calls>>

AudioFetchSettle ==
  \E i \in DOMAIN ops, ok \in BOOLEAN, allowed \in BOOLEAN :
    /\ ops[i].stage = "fetch"
    /\ Commit(audioFetched(Cur, i, ok, allowed))
    /\ UNCHANGED <<batchTimer, cleanupTimer, now, stopped, calls>>

AudioPlay ==
  \E i \in DOMAIN ops :
    /\ ops[i].stage = "starting"
    /\ Commit(onplay(Cur, i))
    /\ UNCHANGED <<batchTimer, cleanupTimer, now, stopped, calls>>

\* Playback reaches the end of the audio: audio.ended becomes true and the
\* ended event is queued.
AudioFinish ==
  \E i \in DOMAIN ops :
    /\ ops[i].stage = "playing"
    /\ Commit([Cur EXCEPT !.ops[i].stage = "ended"])
    /\ UNCHANGED <<batchTimer, cleanupTimer, now, stopped, calls>>

AudioEnded ==
  \E i \in DOMAIN ops :
    /\ ops[i].stage = "ended"
    /\ Commit(onended(Cur, i))
    /\ UNCHANGED <<batchTimer, cleanupTimer, now, stopped, calls>>

AudioError ==
  \E i \in DOMAIN ops :
    /\ ops[i].stage \in {"starting", "playing"}
    /\ Commit(onerror(Cur, i))
    /\ UNCHANGED <<batchTimer, cleanupTimer, now, stopped, calls>>

\* pause() rejects a play() promise that is still pending.
PlayAborted ==
  \E i \in DOMAIN ops :
    /\ ops[i].stage = "aborted"
    /\ Commit(playRejected([Cur EXCEPT !.ops[i] = FreeOp]))
    /\ UNCHANGED <<batchTimer, cleanupTimer, now, stopped, calls>>

Elapse ==
  /\ \E t \in ClockValues : t > now /\ now' = t
  /\ UNCHANGED <<pendingObservations, isSpeaking, isProcessingRef, currentAudioRef,
                 currentAudioUrlRef, speechStartTime, currentNarrationText,
                 lastSpoken, batchTimer, cleanupTimer, timers, ops, stopped, calls>>
  /\ UNCHANGED orchVars
  /\ UNCHANGED fnVars

Next ==
  \/ AddObservation
  \/ Interrupt
  \/ SpeakNow
  \/ Stop
  \/ Destroy
  \/ ForceProcessBatch
  \/ BatchTick
  \/ CleanupTick
  \/ TimerFire
  \/ TtsSettle
  \/ AudioFetchSettle
  \/ AudioPlay
  \/ AudioFinish
  \/ AudioEnded
  \/ AudioError
  \/ PlayAborted
  \/ Elapse

Spec == Init /\ [][Next]_vars

\* The result of an operation fits the bounds of the model.
Fits(r) ==
  /\ r.inBounds
  /\ Len(r.pendingObservations) <= MaxQueue
  /\ Len(r.timers) <= MaxTimers

\* ENABLED <<TimerFire>>_vars and ENABLED <<BatchTick>>_vars as state
\* predicates: a settle-delay timer is scheduled (its callback always changes
\* timers); the batch timer is installed and its tick changes something.
TimerDue ==
  /\ timers # <<>>
  /\ Fits(timerFired([Cur EXCEPT !.timers = Tail(timers)], Head(timers)))

TickDue ==
  /\ batchTimer
  /\ batchTick(Cur) # Cur
  /\ Fits(batchTick(Cur))

\* The event loop runs every timer callback that is due, the batch interval
\* keeps ticking, every request settles, every audio element that was started
\* dispatches its events, and time passes. The weak fairness of TimerFire and
\* of BatchTick is written out, with TimerDue and TickDue for ENABLED.
Fairness ==
  /\ ([]<>(~TimerDue) \/ []<><<TimerFire>>_vars)
  /\ ([]<>(~TickDue) \/ []<><<BatchTick>>_vars)
  /\ WF_vars(TtsSettle)
  /\ WF_vars(AudioFetchSettle)
  /\ WF_vars(AudioPlay)
  /\ WF_vars(AudioFinish)
  /\ WF_vars(AudioEnded)
  /\ WF_vars(PlayAborted)
  /\ WF_vars(Elapse)

LiveSpec == Init /\ [][Next]_vars /\ Fairness

\* ---------------------------------------------------- NarrationOrchestrator
MaxDescriptions == 3
\* config.contextSize of the engine under study
contextSize == 2

IsWordChar(c) == ~IsSpace(c) /\ c \notin {".", ","}

\* t.slice(i - 1, i - 1 + lit.length) equals lit, ignoring case
MatchLit(t, i, lit) ==
  /\ i + Len(lit) - 1 <= Len(t)
  /\ \A k \in 1..Len(lit) : LowerOf(t[i + k - 1]) = lit[k]

\* the index after the longest run of word characters (of spaces) from i
RECURSIVE SpanWord(_, _)
SpanWord(t, i) == IF i <= Len(t) /\ IsWordChar(t[i]) THEN SpanWord(t, i + 1) ELSE i

RECURSIVE SpanSpace(_, _)
SpanSpace(t, i) == IF i <= Len(t) /\ IsSpace(t[i]) THEN SpanSpace(t, i + 1) ELSE i

\* (?:\s+\w+) tried at i: the index after it, or i when it does not match
OptionalWord(t, i) ==
  LET from(sp) == LET upTo(w) == IF sp > i /\ w > sp THEN w ELSE i
                  IN  upTo(SpanWord(t, sp))
  IN  from(SpanSpace(t, i))

NoMatch == 0

\* The index after the first of the alternatives that matches at i, or NoMatch
RECURSIVE FirstLit(_, _, _)
FirstLit(t, i, alternatives) ==
  IF alternatives = <<>> THEN NoMatch
  ELSE IF MatchLit(t, i, Head(alternatives)) THEN i + Len(Head(alternatives))
  ELSE FirstLit(t, i, Tail(alternatives))

\* \s+(\w+(?:\s+\w+){0,2}) tried at i
ArticleTail(t, i) ==
  LET from(sp) == LET upTo(w) == IF sp > i /\ w > sp
                                 THEN OptionalWord(t, OptionalWord(t, w))
                                 ELSE NoMatch
                  IN  upTo(SpanWord(t, sp))
  IN  from(SpanSpace(t, i))

\* /(?:a|an|the)\s+(\w+(?:\s+\w+){0,2})/gi tried at i: the index after the
\* match, or NoMatch. The alternatives are tried in order, the next one when
\* the rest of the pattern fails after the previous one.
RECURSIVE ArticleFrom(_, _, _)
ArticleFrom(t, i, articles) ==
  IF articles = <<>> THEN NoMatch
  ELSE LET tried(e) == IF e # NoMatch THEN e ELSE ArticleFrom(t, i, Tail(articles))
       IN  tried(IF MatchLit(t, i, Head(articles))
                 THEN ArticleTail(t, i + Len(Head(articles)))
                 ELSE NoMatch)

ArticlePhraseAt(t, i) == ArticleFrom(t, i, << <<"a">>, <<"a", "n">>, <<"t", "h", "e">> >>)

\* /(\w+\s+board|\w+\s+sign|\w+\s+door|\w+\s+window)/gi tried at i
FixturePhraseAt(t, i) ==
  LET from(w) == LET upTo(sp) ==
                       IF w > i /\ sp > w
                       THEN FirstLit(t, sp, << <<"b", "o", "a", "r", "d">>, <<"s", "i", "g", "n">>,
                                               <<"d", "o", "o", "r">>,
                                               <<"w", "i", "n", "d", "o", "w">> >>)
                       ELSE NoMatch
                  IN  upTo(SpanSpace(t, w))
  IN  from(SpanWord(t, i))

\* /(person|people|man|woman|child)/gi tried at i
PersonNounAt(t, i) ==
  FirstLit(t, i, << <<"p", "e", "r", "s", "o", "n">>, <<"p", "e", "o", "p", "l", "e">>,
                    <<"m", "a", "n">>, <<"w", "o", "m", "a", "n">>,
                    <<"c", "h", "i", "l", "d">> >>)

\* The three patterns of extractKeyPhrases, in the order of its array
MatchAt(pattern, t, i) ==
  IF pattern = 1 THEN ArticlePhraseAt(t, i)
  ELSE IF pattern = 2 THEN FixturePhraseAt(t, i)
  ELSE PersonNounAt(t, i)

\* text.match(pattern) with the g flag: the matched substrings, leftmost
\* first, each search resuming after the previous match
RECURSIVE matchAll(_, _, _, _)
matchAll(t, i, pattern, acc) ==
  IF i > Len(t) THEN acc
  ELSE LET next(e) == IF e = NoMatch THEN matchAll(t, i + 1, pattern, acc)
                      ELSE matchAll(t, e, pattern, Append(acc, SubSeq(t, i, e - 1)))
       IN  next(MatchAt(pattern, t, i))

\* [...new Set(phrases)]
RECURSIVE unique(_, _)
unique(phrases, acc) ==
  IF phrases = <<>> THEN acc
  ELSE unique(Tail(phrases),
              IF includes(acc, Head(phrases)) THEN acc ELSE Append(acc, Head(phrases)))

extractKeyPhrases(text) ==
  LET normalized(matches) ==
        unique([i \in 1..Len(matches) |-> trim(toLowerCase(matches[i]))], <<>>)
  IN  normalized(matchAll(text, 1, 1, <<>>) \o matchAll(text, 1, 2, <<>>)
                   \o matchAll(text, 1, 3, <<>>))

\* phrases.filter(phrase => !others.includes(phrase))
without(phrases, others) == SelectSeq(phrases, LAMBDA phrase : ~includes(others, phrase))

extractNewElements(newText, lastText) ==
  without(extractKeyPhrases(newText), extractKeyPhrases(lastText))

extractRemovedElements(newText, lastText) ==
  without(extractKeyPhrases(lastText), extractKeyPhrases(newText))

\* Array.prototype.join
RECURSIVE join(_, _)
join(parts, sep) ==
  IF parts = <<>> THEN <<>>
  ELSE IF Len(parts) = 1 THEN parts[1]
  ELSE parts[1] \o sep \o join(Tail(parts), sep)

Range(seq) == {seq[i] : i \in 1..Len(seq)}

\* The word sets of calculateSimilarity and its result as the fraction
\* <<|intersection|, |union|>>
WordSet(text) == Range(split(toLowerCase(text)))

calculateSimilarity(text1, text2) ==
  LET words1 == WordSet(text1)
      words2 == WordSet(text2)
      union == words1 \cup words2
  IN  IF Cardinality(union) = 0 THEN <<0, 1>>
      ELSE <<Cardinality(words1 \cap words2), Cardinality(union)>>

\* similarity > num / den
Above(similarity, num, den) == similarity[1] * den > num * similarity[2]
\* similarity < num / den
Below(similarity, num, den) == similarity[1] * den < num * similarity[2]

NoElements == <<>>

Refined(originalText, refinedText, transitionType, newElements, removedElements) ==
  [originalText |-> originalText, refinedText |-> refinedText,
   transitionType |-> transitionType,
   newElements |-> newElements, removedElements |-> removedElements]

CommaSeparator == <<",", " ">>
AndSeparator == <<" ", "a", "n", "d", " ">>
SceneContinues == <<"T","h","e"," ","s","c","e","n","e"," ","c","o","n","t","i","n","u","e","s","."," ">>
NowISee == <<"N","o","w"," ","I"," ","s","e","e"," ">>
HasChanged == <<" ","h","a","s"," ","c","h","a","n","g","e","d","."," ">>
HaveChanged == <<" ","h","a","v","e"," ","c","h","a","n","g","e","d","."," ">>

handleContinuation(newText, lastText) ==
  LET result(newElements) ==
        IF Len(newElements) > 0
        THEN Refined(newText, SceneContinues \o join(newElements, CommaSeparator),
                     "CONTINUE", newElements, NoElements)
        ELSE Refined(newText, newText, "CONTINUE", NoElements, NoElements)
  IN  result(extractNewElements(newText, lastText))

handleUpdate(newText, lastText) ==
  LET result(newElements, removedElements) ==
        LET refined ==
              IF Len(removedElements) > 0 /\ Len(newElements) > 0
              THEN join(removedElements, AndSeparator)
                     \o (IF Len(removedElements) = 1 THEN HasChanged ELSE HaveChanged)
                     \o join(newElements, CommaSeparator)
              ELSE IF Len(newElements) > 0 THEN NowISee \o join(newElements, CommaSeparator)
              ELSE newText
        IN  Refined(newText, refined, "UPDATE", newElements, removedElements)
  IN  result(extractNewElements(newText, lastText), extractRemovedElements(newText, lastText))

handleNew(newText, lastText) == Refined(newText, newText, "NEW", NoElements, NoElements)

\* lastDescription.refinedText || lastDescription.text
LastText(descriptions) ==
  LET lastDescription == descriptions[Len(descriptions)]
  IN  IF lastDescription.refinedText # <<>> THEN lastDescription.refinedText
      ELSE lastDescription.text

\* the CONTINUE threshold compared with >= instead of >
refineDescription_atLeast(descriptions, text) ==
  IF Len(descriptions) = 0 THEN Refined(text, text, "NEW", NoElements, NoElements)
  ELSE LET lastText == LastText(descriptions)
           similarity == calculateSimilarity(text, lastText)
       IN  IF ~Below(similarity, 8, 10) THEN handleContinuation(text, lastText)
           ELSE IF Above(similarity, 3, 10) THEN handleUpdate(text, lastText)
           ELSE handleNew(text, lastText)

refineDescription(descriptions, text) ==
  IF Len(descriptions) = 0 THEN Refined(text, text, "NEW", NoElements, NoElements)
  ELSE LET lastText == LastText(descriptions)
           similarity == calculateSimilarity(text, lastText)
       IN  IF Above(similarity, 8, 10) THEN handleContinuation(text, lastText)
           ELSE IF Above(similarity, 3, 10) THEN handleUpdate(text, lastText)
           ELSE handleNew(text, lastText)

\* the window trimmed at the wrong end: pop instead of shift
addToContext_pop(descriptions, text, refinedText) ==
  LET pushed == Append(descriptions, [text |-> text, refinedText |-> refinedText])
  IN  IF Len(pushed) > contextSize THEN SubSeq(pushed, 1, Len(pushed) - 1) ELSE pushed

addToContext(descriptions, text, refinedText) ==
  LET pushed == Append(descriptions, [text |-> text, refinedText |-> refinedText])
  IN  IF Len(pushed) > contextSize THEN Tail(pushed) ELSE pushed

isSignificantlyDifferent(descriptions, newText, num, den) ==
  IF Len(descriptions) = 0 THEN TRUE
  ELSE Below(calculateSimilarity(newText, LastText(descriptions)), num, den)

PersonAhead == <<"A"," ","p","e","r","s","o","n"," ","i","s"," ","a","h","e","a","d">>
PersonAheadDoor ==
  PersonAhead \o <<" ","a","n","d"," ","a"," ","d","o","o","r"," ","i","s"," ","o","n",
                   " ","t","h","e"," ","l","e","f","t">>
StairsDown == <<"S","t","a","i","r","s"," ","d","o","w","n">>
EmptyText == <<>>
\* four of five words shared with PersonAhead
PersonAheadNow == PersonAhead \o <<" ", "n", "o", "w">>
\* three of ten words shared with PersonAheadDoor
DoorLeftNow == <<"T","h","e"," ","d","o","o","r"," ","l","e","f","t"," ","n","o","w">>

Descriptions == {PersonAhead, PersonAheadDoor, StairsDown, EmptyText}

\* clearTimeout that forgets to unschedule
clearTimeout_kept(scheduled, handle) == scheduled

\* if (this.transitionTimer) clearTimeout(this.transitionTimer)
clearTimeout(scheduled, handle) ==
  IF handle # NULL THEN scheduled \ {handle} ELSE scheduled

cancelPendingTransition ==
  /\ orchTimers' = clearTimeout(orchTimers, transitionTimer)
  /\ transitionTimer' = NULL
  /\ pendingDescription' = NoText
  /\ onRefinedReady' = NULL

\* hasPendingTransition() (lines 258-260)
hasPendingTransition == transitionTimer # NULL

\* History: the calls whose timer has neither fired nor been given up
Outstanding(entry) == ~entry.fired /\ ~entry.superseded /\ ~entry.cancelled

GiveUp(field) ==
  [c \in DOMAIN descLog |->
     IF Outstanding(descLog[c]) THEN [descLog[c] EXCEPT ![field] = TRUE] ELSE descLog[c]]

\* processDescription(text, onReady): the call, its timer handle and its
\* callback are all identified by the index of the call.
ProcessDescription ==
  \E text \in Descriptions :
    LET h == Len(descLog) + 1
    IN  /\ Len(descLog) < MaxDescriptions
        /\ pendingDescription' = text
        /\ onRefinedReady' = h
        /\ transitionTimer' = h
        /\ orchTimers' = clearTimeout(orchTimers, transitionTimer) \cup {h}
        /\ descLog' = Append(GiveUp("superseded"),
                             [text |-> text, fired |-> FALSE, superseded |-> FALSE,
                              cancelled |-> FALSE, nested |-> FALSE])
        /\ UNCHANGED <<context, delivered>>
        /\ UNCHANGED schedVars
        /\ UNCHANGED fnVars

\* The callback passed to setTimeout (lines 44-54)
TransitionTimerFire ==
  \E h \in orchTimers :
    /\ orchTimers' = orchTimers \ {h}
    /\ descLog' = [descLog EXCEPT ![h].fired = TRUE]
    /\ IF pendingDescription # NoText /\ pendingDescription # <<>> /\ onRefinedReady # NULL
       THEN LET deliver(refined) ==
                  /\ context' = addToContext(context, pendingDescription, refined.refinedText)
                  /\ delivered' = Append(delivered,
                       [timer |-> h, callback |-> onRefinedReady, refined |-> refined,
                        cleared |-> FALSE])
            IN  /\ deliver(refineDescription(context, pendingDescription))
                /\ pendingDescription' = NoText
                /\ onRefinedReady' = NULL
       ELSE UNCHANGED <<context, delivered, pendingDescription, onRefinedReady>>
    /\ UNCHANGED transitionTimer
    /\ UNCHANGED schedVars
    /\ UNCHANGED fnVars

CancelPendingTransition ==
  /\ cancelPendingTransition
  /\ descLog' = GiveUp("cancelled")
  /\ UNCHANGED <<context, delivered>>
  /\ UNCHANGED schedVars
  /\ UNCHANGED fnVars

\* clearContext that leaves the window as it is
clearContext_keepContext ==
  /\ cancelPendingTransition
  /\ context' = context

\* clearContext() (lines 243-246)
clearContext ==
  /\ cancelPendingTransition
  /\ context' = <<>>

ClearContext ==
  /\ clearContext
  /\ descLog' = GiveUp("cancelled")
  /\ delivered' = [k \in DOMAIN delivered |-> [delivered[k] EXCEPT !.cleared = TRUE]]
  /\ UNCHANGED schedVars
  /\ UNCHANGED fnVars

OrchNext ==
  \/ ProcessDescription
  \/ TransitionTimerFire
  \/ CancelPendingTransition
  \/ ClearContext

OrchSpec == Init /\ [][OrchNext]_vars

\* The callback passed to setTimeout (lines 44-54) when the onReady it
\* invokes at line 48 calls processDescription(text, onReady) itself: the
\* nested call runs lines 36-54 to the end, then the callback resumes at
\* lines 51-52. nested is history: the call was made from inside onReady.
TransitionTimerFireNested ==
  \E h \in orchTimers, text \in Descriptions :
    LET h2 == Len(descLog) + 1
        fired == [descLog EXCEPT ![h].fired = TRUE]
        superseded == [c \in DOMAIN fired |->
                         IF Outstanding(fired[c]) THEN [fired[c] EXCEPT !.superseded = TRUE]
                         ELSE fired[c]]
    IN  /\ Len(descLog) < MaxDescriptions
        /\ pendingDescription # NoText /\ pendingDescription # <<>> /\ onRefinedReady # NULL
        /\ LET deliver(refined) ==
                  /\ context' = addToContext(context, pendingDescription, refined.refinedText)
                  /\ delivered' = Append(delivered,
                       [timer |-> h, callback |-> onRefinedReady, refined |-> refined,
                        cleared |-> FALSE])
            IN  deliver(refineDescription(context, pendingDescription))
        /\ orchTimers' = clearTimeout(orchTimers \ {h}, transitionTimer) \cup {h2}
        /\ transitionTimer' = h2
        /\ descLog' = Append(superseded,
                             [text |-> text, fired |-> FALSE, superseded |-> FALSE,
                              cancelled |-> FALSE, nested |-> TRUE])
        /\ pendingDescription' = NoText
        /\ onRefinedReady' = NULL
        /\ UNCHANGED schedVars
        /\ UNCHANGED fnVars

ReentrantNext ==
  \/ OrchNext
  \/ TransitionTimerFireNested

ReentrantSpec == Init /\ [][ReentrantNext]_vars

\* ---------------------------------------------- summarizeBatch on its own
MaxBatch == 4

Bus == <<"B", "u", "s">>
Car == <<"C", "a", "r">>
Dog == <<"D", "o", "g">>
Van == <<"V", "a", "n">>

BatchNarrations == {Bus, Car, Dog, Van}
BatchObservations == {Observation(n, p) : n \in BatchNarrations, p \in Priorities}
Batches == UNION {[1..n -> BatchObservations] : n \in 2..MaxBatch}

\* A fresh scheduler handed a batch of observations
SumInit ==
  /\ Fresh
  /\ fnArgs \in Batches
  /\ fnResult = <<>>

SummarizeBatch ==
  /\ fnResult = <<>>
  /\ fnResult' = <<summarizeBatch(Cur, fnArgs)>>
  /\ UNCHANGED <<schedVars, orchVars, fnArgs>>

SumNext == SummarizeBatch

SumSpec == SumInit /\ [][SumNext]_vars

\* ------------------------------------------- refineDescription on its own
MaxResolved == 2

RefTexts == {PersonAhead, PersonAheadDoor, StairsDown, PersonAheadNow, DoorLeftNow}

\* The context after the texts were resolved one after the other (lines 46-49)
RECURSIVE Resolve(_, _)
Resolve(descriptions, texts) ==
  IF texts = <<>> THEN descriptions
  ELSE Resolve(addToContext(descriptions, Head(texts),
                            refineDescription(descriptions, Head(texts)).refinedText),
               Tail(texts))

Histories == UNION {[1..n -> RefTexts] : n \in 0..MaxResolved}

\* An engine that has resolved a history of texts, and the next text
RefInit ==
  /\ Fresh
  /\ fnArgs \in {[descriptions |-> Resolve(<<>>, h), text |-> t] : h \in Histories, t \in RefTexts}
  /\ fnResult = <<>>

RefineDescription ==
  /\ fnResult = <<>>
  /\ fnResult' = <<refineDescription(fnArgs.descriptions, fnArgs.text)>>
  /\ UNCHANGED <<schedVars, orchVars, fnArgs>>

RefNext == RefineDescription

RefSpec == RefInit /\ [][RefNext]_vars

\* ------------------------------------ isSignificantlyDifferent on its own
\* The thresholds isSignificantlyDifferent is asked with: the default 0.7
\* (line 266) and the two ends of the range
Thresholds == {<<7, 10>>, <<0, 1>>, <<1, 1>>}

\* An engine that has resolved a history of texts, a text and a threshold
DiffInit ==
  /\ Fresh
  /\ fnArgs \in {[descriptions |-> Resolve(<<>>, h), text |-> t, threshold |-> th] :
                   h \in Histories, t \in RefTexts, th \in Thresholds}
  /\ fnResult = <<>>

IsSignificantlyDifferent ==
  /\ fnResult = <<>>
  /\ fnResult' = <<isSignificantlyDifferent(fnArgs.descriptions, fnArgs.text,
                                            fnArgs.threshold[1], fnArgs.threshold[2])>>
  /\ UNCHANGED <<schedVars, orchVars, fnArgs>>

DiffNext == IsSignificantlyDifferent

DiffSpec == DiffInit /\ [][DiffNext]_vars

\* ----------------------------------------- calculateSimilarity on its own
SimTexts ==
  {<<>>, <<" ">>, <<"a">>, <<"A">>, <<"b">>, <<" ", "a">>, <<"a", " ", "b">>,
   <<"b", " ", "a">>, <<"a", " ", "c">>, <<"a", " ", " ", "B">>}

SimInit ==
  /\ Fresh
  /\ fnArgs \in SimTexts \X SimTexts
  /\ fnResult = <<>>

CalculateSimilarity ==
  /\ fnResult = <<>>
  /\ fnResult' = <<calculateSimilarity(fnArgs[1], fnArgs[2])>>
  /\ UNCHANGED <<schedVars, orchVars, fnArgs>>

SimNext == CalculateSimilarity

SimSpec == SimInit /\ [][SimNext]_vars

\* ------------------------------------------------------------------ claims
\* A synthesis+playback operation is active while its TTS request or audio
\* fetch is in flight and not cancelled, or while its audio is playing.
Active(o) == (InFlight(o) /\ ~o.cancelled) \/ (NotPaused(o) /\ ~Ended(o))

ActiveOps == {i \in DOMAIN ops : Active(ops[i])}

\* C1: at most one synthesis+playback operation is active at any time.
C1_AtMostOneActive == Cardinality(ActiveOps) <= 1

\* C2: an operation cancelled by stop, interrupt or speakNow while its TTS
\* request or audio fetch was in flight never starts playback afterwards.
C2_CancelledNeverPlays == \A i \in DOMAIN ops : ops[i].cancelled => ~NotPaused(ops[i])

\* No pending observation, no activity flag, no audio element, no object URL.
Clean ==
  /\ pendingObservations = <<>>
  /\ ~isSpeaking
  /\ ~isProcessingRef
  /\ currentAudioRef = NULL
  /\ currentAudioUrlRef = NULL

\* C4: after stop() was called with a synthesis request in flight, and until
\* the next addObservation, interrupt or speakNow, the scheduler holds no
\* pending observation, no activity flag and no audio, also once the request
\* has completed.
C4_CleanAfterStop == stopped = "inflight" => Clean /\ \A i \in DOMAIN ops : ~NotPaused(ops[i])

\* C5: after stop(), and until the next addObservation, interrupt or speakNow,
\* no synthesis request is issued and no audio starts playing.
C5_NothingStartsAfterStop ==
  [][(stopped # "no" /\ stopped' # "no") =>
       \A i \in DOMAIN ops :
         /\ ops'[i].stage = "tts" => ops[i].stage = "tts"
         /\ ops'[i].stage = "starting" => ops[i].stage = "starting"]_vars

Observations == {Observation(n, p) : n \in Narrations, p \in Priorities}

\* C6: adding the same observation a second time is a no-op.
C6_SecondAddIsNoOp ==
  \A obs \in Observations :
    LET once == addObservation(Cur, obs)
    IN  addObservation(once, obs) = once

\* The current audio has fired its play event and speechStartTime holds the
\* instant it did.
AudiblyPlaying ==
  /\ currentAudioRef # NULL
  /\ ops[currentAudioRef].stage = "playing"
  /\ speechStartTime > 0

MinDurationOf(minDurationOverride) ==
  IF minDurationOverride = NoOverride THEN minSpeechDuration ELSE minDurationOverride

\* C8: interrupt() while the utterance has been audible for less than the
\* applicable minimum does not stop it and queues the text as critical.
C8_InterruptRequeuesShortSpeech ==
  \A text \in Narrations, ov \in Overrides :
    (AudiblyPlaying /\ now - speechStartTime < MinDurationOf(ov)) =>
      LET r == interrupt(Cur, text, ov)
      IN  /\ r.currentAudioRef = currentAudioRef
          /\ r.ops = ops
          /\ r.pendingObservations = <<Observation(text, "critical")>> \o pendingObservations

\* How long the current utterance has been audible: nothing before its play event.
AudibleFor == IF AudiblyPlaying THEN now - speechStartTime ELSE 0

MinAudibleFor(priority) ==
  IF priority = "high" THEN HighNewObjectMinDuration
  ELSE IF priority = "critical" THEN minSpeechDuration
  ELSE LowNewObjectMinDuration

\* C9: addObservation never stops an utterance that has been audible for less
\* than the minimum of the observation's priority.
C9_AddNeverCutsShortSpeech ==
  \A obs \in Observations :
    (ActiveOps # {} /\ AudibleFor < MinAudibleFor(obs.priority)) =>
      LET r == addObservation(Cur, obs)
      IN  r.ops = ops /\ r.currentAudioRef = currentAudioRef

\* An entry of the last-spoken registry younger than dedupeWindowMs equals
\* the normalized narration or is lexically similar to it.
RecentRegistryMatch(narration) ==
  \E k \in DOMAIN lastSpoken :
    /\ now - lastSpoken[k] < dedupeWindowMs
    /\ (k = NormKey(narration) \/ isSimilarNarration(NormKey(narration), k))

\* C7: a non-critical observation matching a recent registry entry is dropped
\* and nothing changes.
C7_RecentlySpokenDropped ==
  \A n \in Narrations :
    RecentRegistryMatch(n) =>
      \A p \in Priorities \ {"critical"} : addObservation(Cur, Observation(n, p)) = Cur

C7_Witness ==
  /\ pendingObservations # <<>>
  /\ \E n \in Narrations :
       /\ RecentRegistryMatch(n)
       /\ NormKey(n) \notin DOMAIN lastSpoken
       /\ addObservation(Cur, Observation(n, "medium")) = Cur

DeliveriesTo(c) == {k \in 1..Len(delivered) : delivered[k].callback = c}

CurrentlySpeaking == isSpeaking \/ isProcessingRef \/ audioPlaying(Cur)

\* C11: a high-priority observation that was not recently spoken, arriving
\* when nothing is speaking, processing or playing, only schedules a speak
\* request for its text and leaves the queue alone, and when that request's
\* settle delay is over a synthesis request for exactly that text is issued
\* and the text is not placed in pendingObservations; arriving while the
\* same object is being spoken, it is inserted at the front of the queue.
C11_HighSpokenImmediately ==
  [][/\ \A n \in Narrations :
          LET obs == Observation(n, "high")
              r == addObservation(Cur, obs)
          IN  ~wasRecentlySpoken(Cur, n) =>
                /\ ~CurrentlySpeaking =>
                      /\ r.pendingObservations = pendingObservations
                      /\ r.timers = Append(timers, DirectTimer(n))
                /\ (CurrentlySpeaking /\ ~isNewObject(Cur, n)) =>
                      r.pendingObservations = <<obs>> \o pendingObservations
     /\ (timers # <<>> /\ Head(timers).direct /\ timers' = Tail(timers)) =>
          /\ pendingObservations' = pendingObservations
          /\ \E i \in DOMAIN ops :
               /\ ops[i].stage = "free"
               /\ ops'[i].stage = "tts"
               /\ ops'[i].text = Head(timers).text]_vars

\* An observation already queued is lexically similar to the narration.
SimilarQueued(narration) ==
  \E i \in 1..Len(pendingObservations) :
    isSimilarNarration(NormKey(pendingObservations[i].narration), NormKey(narration))

NewObjectFastPath(narration) == CurrentlySpeaking /\ isNewObject(Cur, narration)

RoutineRouting(narration, priority) ==
  LET obs == Observation(narration, priority)
  IN  addObservation(Cur, obs) =
        IF SimilarQueued(narration) THEN Cur
        ELSE [Cur EXCEPT !.pendingObservations = Append(pendingObservations, obs)]

\* C12 as stated: a medium or low observation not routed to the new-object
\* fast path is appended to the back of the queue if and only if nothing
\* queued is lexically similar to it, and otherwise changes nothing.
C12_AppendedUnlessSimilarQueued ==
  \A n \in Narrations :
    ~NewObjectFastPath(n) => \A p \in {"medium", "low"} : RoutineRouting(n, p)

\* C12: the same for a medium or low observation that was not recently
\* spoken.
C12_AppendedUnlessSimilarQueuedOrSpoken ==
  \A n \in Narrations :
    (~NewObjectFastPath(n) /\ ~wasRecentlySpoken(Cur, n)) =>
      \A p \in {"medium", "low"} : RoutineRouting(n, p)

\* One narration is dropped for a different, similar text in the queue and
\* another is appended behind it.
C12_Witness ==
  /\ pendingObservations # <<>>
  /\ \E n \in Narrations :
       /\ ~NewObjectFastPath(n) /\ ~wasRecentlySpoken(Cur, n)
       /\ SimilarQueued(n)
       /\ \A i \in 1..Len(pendingObservations) : pendingObservations[i].narration # n
       /\ addObservation(Cur, Observation(n, "medium")) = Cur
  /\ \E n \in Narrations :
       /\ ~NewObjectFastPath(n) /\ ~wasRecentlySpoken(Cur, n)
       /\ ~SimilarQueued(n)
       /\ Len(addObservation(Cur, Observation(n, "low")).pendingObservations)
            = Len(pendingObservations) + 1

\* Texts that are empty after trimming.
BlankTexts == {<<>>, <<" ">>}

\* C13: an observation whose text is empty after trimming is rejected
\* whatever its priority and the scheduler state: the queue is unchanged,
\* current speech is not interrupted and no synthesis is scheduled.
C13_BlankObservationRejected ==
  \A text \in BlankTexts, p \in Priorities :
    LET r == addObservation(Cur, Observation(text, p))
    IN  /\ r.pendingObservations = pendingObservations
        /\ r.ops = ops
        /\ r.currentAudioRef = currentAudioRef
        /\ r.isSpeaking = isSpeaking /\ r.isProcessingRef = isProcessingRef
        /\ r.timers = timers

\* The scheduler after a failure of invocation i: nothing of it plays, both
\* flags are false, its text is neither queued nor retried, and the queue,
\* the other invocations and the current audio are as before.
RecoveredFrom(r, i) ==
  /\ ~r.isSpeaking /\ ~r.isProcessingRef
  /\ r.pendingObservations = pendingObservations
  /\ r.timers = timers
  /\ r.ops = [ops EXCEPT ![i] = FreeOp]
  /\ r.currentAudioRef = currentAudioRef
  /\ r.currentAudioUrlRef = currentAudioUrlRef
  /\ r.lastSpoken = lastSpoken

\* C14: when the TTS request fails (non-2xx status or no audio reference)
\* or the audio fetch fails, no audio plays for the text, both activity
\* flags are false, the text is dropped without retry and the queue is as
\* it was.
C14_FailureRecovers ==
  \A i \in DOMAIN ops :
    /\ ops[i].stage = "tts" => RecoveredFrom(ttsSettled(Cur, i, FALSE), i)
    /\ ops[i].stage = "fetch" =>
         \A allowed \in BOOLEAN : RecoveredFrom(audioFetched(Cur, i, FALSE, allowed), i)

\* A request in flight with both flags set and observations waiting.
C14_Witness ==
  /\ isSpeaking /\ isProcessingRef
  /\ pendingObservations # <<>>
  /\ \E i \in DOMAIN ops :
       /\ ops[i].stage = "fetch" /\ ~ops[i].cancelled
       /\ ~audioFetched(Cur, i, FALSE, TRUE).isSpeaking

\* A synthesis request that nobody cancelled is in flight.
SynthesisInFlight == \E i \in DOMAIN ops : InFlight(ops[i]) /\ ~ops[i].cancelled

\* C15: a flush tick changes nothing while the queue is empty, a synthesis
\* is in flight or audio is playing; when it proceeds it empties the queue
\* and schedules at most one utterance, the summary, and only if the
\* summary is non-empty and not recently spoken.
C15_TickSkipsOrDrains ==
  LET r == batchTick(Cur)
      drained == [Cur EXCEPT !.pendingObservations = <<>>]
      summary == summarizeBatch(drained, pendingObservations)
  IN  /\ (pendingObservations = <<>> \/ SynthesisInFlight \/ audioPlaying(Cur)) => r = Cur
      /\ r # Cur =>
           /\ r.pendingObservations = <<>>
           /\ \A i \in DOMAIN ops : Active(r.ops[i]) => r.ops[i] = ops[i]
           /\ \/ r.timers = timers
              \/ /\ r.timers = Append(timers, SpeakTimer(summary))
                 /\ Len(trim(summary)) > 0
                 /\ ~wasRecentlySpoken(drained, summary)

\* Where the narration first occurs in the text, ignoring case; 0 if nowhere
IndexOf(text, narration) ==
  LET at == {i \in 1..(Len(text) - Len(narration) + 1) :
               toLowerCase(SubSeq(text, i, i + Len(narration) - 1)) = toLowerCase(narration)}
  IN  IF at = {} THEN 0 ELSE CHOOSE i \in at : \A j \in at : i <= j

Rank(priority) ==
  CASE priority = "critical" -> 1 [] priority = "high" -> 2
    [] priority = "medium" -> 3 [] priority = "low" -> 4

\* The observations of the batch that no earlier one duplicates
Survivors(batch) ==
  {k \in DOMAIN batch : \A j \in 1..(k - 1) : batch[j].narration # batch[k].narration}

\* Observation k goes before observation j: higher priority, or the same
\* priority and earlier in the queue
GoesBefore(batch, k, j) ==
  \/ Rank(batch[k].priority) < Rank(batch[j].priority)
  \/ Rank(batch[k].priority) = Rank(batch[j].priority) /\ k < j

Listed(batch, text) == {k \in Survivors(batch) : IndexOf(text, batch[k].narration) > 0}

\* C16: for a batch of two or more observations none of which was recently
\* spoken, the summary lists at most three narrations, the first in
\* priority order (equal priorities in queue order), in that order.
C16_SummaryInPriorityOrder ==
  fnResult # <<>> =>
    LET listed == Listed(fnArgs, fnResult[1])
    IN  /\ Cardinality(listed) = Min(3, Cardinality(Survivors(fnArgs)))
        /\ \A k \in listed, j \in Survivors(fnArgs) \ listed : GoesBefore(fnArgs, k, j)
        /\ \A k \in listed, j \in listed :
             GoesBefore(fnArgs, k, j) =>
               IndexOf(fnResult[1], fnArgs[k].narration) < IndexOf(fnResult[1], fnArgs[j].narration)

\* [{low, Bus}, {critical, Car}, {medium, Dog}, {critical, Van}] summarized
\* as "Car. Van. Dog"
C16_Witness ==
  /\ fnArgs = <<Observation(Bus, "low"), Observation(Car, "critical"),
                Observation(Dog, "medium"), Observation(Van, "critical")>>
  /\ fnResult = <<Car \o SentenceSeparator \o Van \o SentenceSeparator \o Dog>>

\* C17: no queued observation equals or is lexically similar to the
\* utterance that is currently playing.
C17_QueueNeverDuplicatesCurrent ==
  currentNarrationText # NoText =>
    \A i \in 1..Len(pendingObservations) :
      ~isSimilarNarration(NormKey(pendingObservations[i].narration),
                          NormKey(currentNarrationText))

\* The descriptions resolved since the context was last cleared, oldest first
Resolved == SelectSeq(delivered, LAMBDA d : ~d.cleared)

EntryOf(d) == [text |-> d.refined.originalText, refinedText |-> d.refined.refinedText]

\* C18: the context holds exactly the min(n, maxSize) most recent of the n
\* resolved descriptions, oldest first.
C18_ContextIsSlidingWindow ==
  LET n == Len(Resolved)
      kept == Min(n, contextSize)
  IN  /\ Len(context) = kept
      /\ \A i \in 1..kept : context[i] = EntryOf(Resolved[n - kept + i])

\* One description more than the capacity was resolved and the oldest, of
\* a text no longer in the context, was evicted.
C18_Witness ==
  /\ Len(Resolved) = contextSize + 1
  /\ Len(context) = contextSize
  /\ \A i \in DOMAIN context : context[i].text # Resolved[1].refined.originalText

\* The transition type the thresholds give for i shared words out of u
TypeFor(i, u) ==
  IF 10 * i > 8 * u THEN "CONTINUE" ELSE IF 10 * i > 3 * u THEN "UPDATE" ELSE "NEW"

LastRefined(descriptions) == descriptions[Len(descriptions)].refinedText
SharedWords(a, b) == Cardinality(WordSet(a) \cap WordSet(b))
AllWords(a, b) == Cardinality(WordSet(a) \cup WordSet(b))

\* C19: the refinement of a text is NEW on an empty context, and otherwise
\* CONTINUE, UPDATE or NEW as its similarity s to the refined text of the
\* most recent entry is s > 0.8, 0.3 < s <= 0.8 or s <= 0.3; a NEW
\* refinement has the text unchanged.
C19_TransitionTypeByThreshold ==
  fnResult # <<>> =>
    LET r == fnResult[1]
        t == fnArgs.text
        descriptions == fnArgs.descriptions
    IN  /\ r.originalText = t
        /\ r.transitionType =
             (IF descriptions = <<>> THEN "NEW"
              ELSE TypeFor(SharedWords(t, LastRefined(descriptions)),
                           AllWords(t, LastRefined(descriptions))))
        /\ r.transitionType = "NEW" => r.refinedText = t

\* "A person is ahead now" after "A person is ahead": a similarity of
\* exactly 0.8 refined as UPDATE.
C19_Witness ==
  /\ fnResult # <<>>
  /\ fnArgs.text = PersonAheadNow
  /\ fnArgs.descriptions # <<>>
  /\ LastRefined(fnArgs.descriptions) = PersonAhead
  /\ SharedWords(PersonAheadNow, PersonAhead) = 4
  /\ AllWords(PersonAheadNow, PersonAhead) = 5
  /\ fnResult[1].transitionType = "UPDATE"

\* No debounce timer is outstanding
NothingPending == orchTimers = {}

\* The calls cancelPendingTransition gave up have had no callback
CancelledNeverDelivered ==
  \A c \in DOMAIN descLog :
    descLog[c].cancelled =>
      /\ ~descLog[c].fired
      /\ c \notin orchTimers
      /\ \A d \in DOMAIN delivered : delivered[d].callback # c /\ delivered[d].timer # c

\* C20: cancelPendingTransition() leaves no timer outstanding, no pending
\* text and no callback, and hasPendingTransition() false; the call it
\* cancelled never has its onReady invoked and the context is as it was;
\* with nothing pending the call changes nothing, not even what
\* hasPendingTransition() answers.
C20_CancelDiscardsPending ==
  /\ []CancelledNeverDelivered
  /\ [][CancelPendingTransition =>
         /\ ~hasPendingTransition'
         /\ NothingPending'
         /\ pendingDescription' = NoText /\ onRefinedReady' = NULL
         /\ context' = context
         /\ NothingPending => hasPendingTransition' = hasPendingTransition]_vars

\* The first delivery since the last clearContext (or since construction)
FirstSinceClear(d) ==
  /\ ~delivered[d].cleared
  /\ d = 1 \/ delivered[d - 1].cleared

\* C21: clearContext() leaves no timer outstanding and an empty context,
\* on which isSignificantlyDifferent answers true for every text; no call
\* scheduled before it has its onReady invoked afterwards, and the first
\* refinement delivered after it is NEW with the text unchanged.
C21_ClearContextResets ==
  /\ [](\A c \in DOMAIN descLog :
          descLog[c].cancelled =>
            \A d \in DOMAIN delivered : delivered[d].callback # c)
  /\ [](\A d \in DOMAIN delivered :
          FirstSinceClear(d) =>
            /\ delivered[d].refined.transitionType = "NEW"
            /\ delivered[d].refined.refinedText = delivered[d].refined.originalText)
  /\ [][ClearContext =>
         /\ Len(context') = 0
         /\ NothingPending'
         /\ \A c \in DOMAIN descLog' : ~Outstanding(descLog'[c])
         /\ \A t \in Descriptions : \A th \in Thresholds :
              isSignificantlyDifferent(context', t, th[1], th[2])]_vars

\* 'A person is ahead' resolved, then clearContext, then 'A person is
\* ahead' resolved again: NEW, where it would have been CONTINUE.
C21_Witness ==
  /\ Len(delivered) = 2
  /\ delivered[1].cleared /\ ~delivered[2].cleared
  /\ delivered[1].refined.originalText = PersonAhead
  /\ delivered[2].refined.originalText = PersonAhead
  /\ delivered[2].refined.transitionType = "NEW"
  /\ context = <<[text |-> PersonAhead, refinedText |-> PersonAhead]>>

\* 'A person is ahead' superseded, before its timer fired, by 'A person is
\* ahead and a door is on the left', whose timer has fired; no third call
DebouncedPair ==
  /\ Len(descLog) = 2
  /\ descLog[1].text = PersonAhead /\ descLog[1].superseded
  /\ descLog[2].text = PersonAheadDoor /\ descLog[2].fired

\* C22: on a fresh engine, 'A person is ahead' followed within the delay
\* by 'A person is ahead and a door is on the left' emits exactly one
\* refinement, for the second call, classified CONTINUE or UPDATE.
C22_DebouncedPairRefined ==
  DebouncedPair =>
    /\ Len(delivered) = 1
    /\ delivered[1].callback = 2
    /\ delivered[1].refined.originalText = PersonAheadDoor
    /\ delivered[1].refined.transitionType \in {"CONTINUE", "UPDATE"}

\* The words of a text: its maximal runs of non-whitespace, lower-cased
Words(text) == WordSet(text) \ {<<>>}

\* C23: the similarity of two texts is |intersection| / |union| of their
\* lower-cased word sets, 0 when neither has a word; it lies in [0, 1]
\* and is the same with the arguments exchanged.
C23_SimilarityIsJaccard ==
  fnResult # <<>> =>
    LET similarity == fnResult[1]
        common == Cardinality(Words(fnArgs[1]) \cap Words(fnArgs[2]))
        all == Cardinality(Words(fnArgs[1]) \cup Words(fnArgs[2]))
    IN  /\ similarity[2] > 0
        /\ 0 <= similarity[1] /\ similarity[1] <= similarity[2]
        /\ IF all = 0 THEN similarity[1] = 0
           ELSE similarity[1] * all = common * similarity[2]
        /\ LET exchanged == calculateSimilarity(fnArgs[2], fnArgs[1])
           IN  similarity[1] * exchanged[2] = exchanged[1] * similarity[2]

\* C24: isSignificantlyDifferent answers true on an empty context and
\* otherwise exactly when the similarity of the text to the text of the
\* most recent context entry is strictly below the threshold.
C24_DifferentBelowThreshold ==
  fnResult # <<>> =>
    LET descriptions == fnArgs.descriptions
    IN  fnResult[1] =
          (IF descriptions = <<>> THEN TRUE
           ELSE Below(calculateSimilarity(fnArgs.text, descriptions[Len(descriptions)].text),
                      fnArgs.threshold[1], fnArgs.threshold[2]))

\* C25: in every state forceProcessBatch() and a tick of the batch timer
\* decide alike and leave the same state (queue, timers and the speak
\* request scheduled for the summary).
C25_ForceSameAsTick ==
  forceProcessBatch(Cur) = batchTick(Cur)

\* The observation has stopped the audio and scheduled its own narration
InterruptedBy(r, narration) ==
  /\ r.currentAudioRef = NULL
  /\ ~r.isSpeaking /\ ~r.isProcessingRef
  /\ Len(r.timers) = Len(timers) + 1
  /\ r.timers[Len(r.timers)].kind = "speak"
  /\ r.timers[Len(r.timers)].text = narration

\* The observation has neither stopped the audio nor scheduled any speech
OnlyQueued(r) ==
  /\ r.timers = timers
  /\ r.ops = ops
  /\ r.currentAudioRef = currentAudioRef
  /\ r.isSpeaking = isSpeaking /\ r.isProcessingRef = isProcessingRef

\* C26: in every state a critical observation added while speech is going
\* on interrupts it at once, and a high, medium or low observation only
\* ever changes the pending queue: it starts no speech and stops none.
C26_OnlyCriticalInterrupts ==
  \A narration \in Narrations :
    /\ CurrentlySpeaking =>
         InterruptedBy(addObservation(Cur, Observation(narration, "critical")), narration)
    /\ \A priority \in Priorities \ {"critical"} :
         OnlyQueued(addObservation(Cur, Observation(narration, priority)))

\* C27: hasPendingTransition() is true exactly while some call of
\* processDescription has its timer scheduled: not yet fired, superseded
\* or cancelled.
C27_PendingIffScheduled ==
  hasPendingTransition <=> \E c \in DOMAIN descLog : Outstanding(descLog[c])

\* C28: when the timer of a speak request is due while a synthesis is in
\* flight or audio is playing, its callback starts no TTS request: it
\* appends the text to the queue as a medium observation and changes
\* nothing else.
C28_BusyRequestRequeued ==
  (/\ timers # <<>>
   /\ Head(timers).kind = "speak"
   /\ SynthesisInFlight \/ audioPlaying(Cur)) =>
    LET dequeued == [Cur EXCEPT !.timers = Tail(timers)]
    IN  timerFired(dequeued, Head(timers)) =
          queueBack(dequeued, Observation(Head(timers).text, "medium"))

\* Playback of the text is over: nothing of it is held, the scheduler is
\* idle, the text is registered as spoken, and with observations waiting a
\* flush has been scheduled after the settle delay
PlaybackClosed(r, text) ==
  /\ r.currentAudioRef = NULL /\ r.currentAudioUrlRef = NULL
  /\ r.currentNarrationText = NoText
  /\ ~r.isSpeaking /\ ~r.isProcessingRef
  /\ NormKey(text) \in DOMAIN r.lastSpoken
  /\ r.pendingObservations # <<>> => r.timers = Append(timers, FlushTimer)

\* C29: when the ended event or the error event of the playing audio is
\* dispatched, the audio is released, currentNarrationText is null, both
\* flags are false, the text is in the last-spoken registry and, if
\* observations are waiting, a flush is scheduled after the settle delay.
C29_PlaybackEndFlushes ==
  \A i \in DOMAIN ops :
    /\ ops[i].stage = "ended" => PlaybackClosed(onended(Cur, i), ops[i].text)
    /\ ops[i].stage \in {"starting", "playing"} =>
         PlaybackClosed(onerror(Cur, i), ops[i].text)

\* C30: isSpeaking is true whenever an uncancelled TTS request or audio
\* fetch is in flight and whenever the current audio is playing.
C30_SpeakingFlagCoversActivity ==
  (SynthesisInFlight \/ AudiblyPlaying) => isSpeaking

\* C39: the two activity flags always have the same value.
C39_FlagsAgree == isSpeaking = isProcessingRef

\* A request awaiting its TTS response with both flags set.
C39_Witness ==
  /\ isSpeaking /\ isProcessingRef
  /\ \E i \in DOMAIN ops : ops[i].stage = "tts" /\ ~ops[i].cancelled

\* C40: the audio element and its object URL are held together or not at
\* all, and currentNarrationText is set only while an element is held.
C40_HandlesAgree ==
  /\ currentAudioRef = NULL <=> currentAudioUrlRef = NULL
  /\ currentNarrationText # NoText => currentAudioRef # NULL

\* The current audio is playing: element, URL and narration text are set.
C40_Witness ==
  /\ currentAudioRef # NULL /\ currentAudioUrlRef # NULL
  /\ ops[currentAudioRef].stage = "playing"
  /\ currentNarrationText = ops[currentAudioRef].text

\* The operation of element i is over: it awaits nothing and plays nothing
Exited(o) == ~InFlight(o) /\ ~NotPaused(o) /\ o.stage # "aborted"

\* C32: once a synthesis and playback operation is over, on whichever
\* path, the scheduler holds neither its audio element nor its object URL
\* and the element has no handlers attached (its slot is free).
C32_NothingHeldAfterExit ==
  \A i \in DOMAIN ops :
    Exited(ops[i]) =>
      /\ currentAudioRef # i
      /\ currentAudioUrlRef # i
      /\ ops[i] = FreeOp

\* C38: at most one audio element is not paused, and it is the current
\* one: an element that was playing when a newer one was set up has been
\* paused and dropped.
C38_AtMostOnePlaying ==
  /\ Cardinality({i \in DOMAIN ops : NotPaused(ops[i])}) <= 1
  /\ \A i \in DOMAIN ops : NotPaused(ops[i]) => currentAudioRef = i

\* A new element has been set up while the play() of another was pending:
\* the older one is paused, the newer one is current.
C38_Witness ==
  \E i, j \in DOMAIN ops :
    /\ i # j
    /\ ops[j].stage = "aborted"
    /\ ops[i].stage = "starting"
    /\ currentAudioRef = i

\* C34: a request in flight that no stop, interrupt or speakNow has
\* cancelled has both activity flags set, and when its audio arrives it
\* is set up for playback rather than dropped as cancelled.
C34_UncancelledRequestProceeds ==
  \A i \in DOMAIN ops :
    (InFlight(ops[i]) /\ ~ops[i].cancelled) =>
      /\ isSpeaking /\ isProcessingRef
      /\ ops[i].stage = "fetch" =>
           LET r == audioFetched(Cur, i, TRUE, TRUE)
           IN  r.currentAudioRef = i /\ r.ops[i].stage = "starting"

\* C33: once destroy() has run and no call has followed it, no timer of the
\* scheduler is left to fire: the batch interval, the cleanup interval and
\* every settle-delay timer are cancelled.
Destroyed == ~batchTimer /\ stopped # "no"

C33_DestroyCancelsTimers ==
  Destroyed => ~cleanupTimer /\ timers = <<>>

\* The settle-delay timers alone
C33_DestroyCancelsSettleTimers ==
  Destroyed => timers = <<>>

\* A critical observation is at the front of pendingObservations.
FrontCritical ==
  /\ pendingObservations # <<>>
  /\ Head(pendingObservations).priority = "critical"

\* C31: when the batch is flushed with a critical observation at its front,
\* the flush schedules an utterance whose text is exactly the text of that
\* observation.
C31_FrontCriticalSpokenAlone ==
  FrontCritical =>
    LET r == drainAndSpeak(Cur)
    IN  /\ r.timers # <<>>
        /\ r.timers[Len(r.timers)] = SpeakTimer(Head(pendingObservations).narration)

\* The part of C31 about merging: whatever the flush schedules has the text
\* of the critical observation and nothing else.
C31_FrontCriticalNotMerged ==
  FrontCritical =>
    LET r == drainAndSpeak(Cur)
    IN  r.timers # timers =>
          r.timers[Len(r.timers)].text = Head(pendingObservations).narration

\* The text t occurs in the utterance u, letter case aside (a summary
\* lower-cases its second narration).
Mentions(u, t) ==
  \E i \in 0..(Len(u) - Len(t)) :
    toLowerCase(SubSeq(u, i + 1, i + Len(t))) = toLowerCase(t)

\* Nothing is queued, scheduled, requested or playing.
AtRest ==
  /\ pendingObservations = <<>>
  /\ timers = <<>>
  /\ \A i \in DOMAIN ops : ops[i] = FreeOp
  /\ ~isSpeaking /\ ~isProcessingRef

\* C35: a critical observation that addObservation accepts into the queue of
\* a scheduler at rest is not lost by the flush of the next tick: when the
\* tick drains the queue, it schedules an utterance with the observation's
\* text in it.
C35_AcceptedCriticalIsSpoken ==
  \A n \in Narrations :
    LET obs == Observation(n, "critical")
        accepted == addObservation(Cur, obs)
        flushed == batchTick(accepted)
    IN  (AtRest /\ accepted.pendingObservations = <<obs>>
           /\ flushed.pendingObservations = <<>>) =>
          /\ flushed.timers # <<>>
          /\ flushed.timers[1].kind = "speak"
          /\ Mentions(flushed.timers[1].text, n)

\* C37: a processDescription call made from inside onReady whose timer has
\* fired and whose text is not empty has had its onReady invoked with the
\* refinement of its text.
C37_NestedCallHonoured ==
  \A c \in DOMAIN descLog :
    (descLog[c].nested /\ descLog[c].fired /\ descLog[c].text # <<>>) =>
      \E k \in DOMAIN delivered :
        /\ delivered[k].callback = c
        /\ delivered[k].timer = c
        /\ delivered[k].refined.originalText = descLog[c].text

\* Nothing is queued, both activity flags are false and no audio is playing.
Quiescent ==
  /\ pendingObservations = <<>>
  /\ ~isSpeaking /\ ~isProcessingRef
  /\ ~audioPlaying(Cur)

\* C36: while the batch timer is installed the scheduler becomes quiescent
\* again and again, hence after the last call of the public interface.
C36_BecomesQuiescent == []<>(Quiescent \/ ~batchTimer)

\* No timer is scheduled, no request is in flight, no audio element has an
\* event to dispatch and the tick of the batch timer changes nothing.
Settled ==
  /\ timers = <<>>
  /\ \A i \in DOMAIN ops : ops[i].stage \in {"free", "dead"}
  /\ batchTick(Cur) = Cur

\* C36, the states in which the scheduler comes to rest: with the batch timer
\* installed and nothing left to happen, the scheduler is quiescent.
C36_SettledIsQuiescent == (batchTimer /\ Settled) => Quiescent

\* The scheduler has come to rest after its last call, having spoken.
C36_Witness ==
  /\ calls = MaxCalls
  /\ batchTimer /\ Settled /\ Quiescent
  /\ DOMAIN lastSpoken # {}

\* C36 without the proviso about the batch timer
C36_QuiescentAgainAndAgain == []<>Quiescent


====
